---- MODULE Spec2Model ----
(***************************************************************************)
(* Model of the voice-ai-backend query pipeline (src/server.js).           *)
(*                                                                         *)
(* src/server.js holds two servers: the rule-routed one (lines 1-243) and  *)
(* the model-augmented one (lines 245-532).  A deployment runs one of      *)
(* them; `variant` says which.  One request is followed from its arrival   *)
(* to its HTTP response; every action runs a handler from one `await` to   *)
(* the next.  Texts are TLA+ strings, handled character by character.      *)
(*                                                                         *)
(* Modelled: POST /api/chat of both servers and, with searchWithOpenAI,    *)
(* POST /api/search of the model-augmented one.  POST /api/voice of the    *)
(* model-augmented server runs the same statements as its /api/chat.       *)
(***************************************************************************)
EXTENDS Integers, Sequences, FiniteSets, TLC

\* ------------------------------------------------------------------------
\* Bounds of the model
\* ------------------------------------------------------------------------

\* A message is the concatenation of 1..MaxFrags fragments of Fragments.
MaxFrags == 2

\* ------------------------------------------------------------------------
\* Characters and strings
\* ------------------------------------------------------------------------

CharAt(s, i) == SubSeq(s, i, i)

DropFirst(s, n) == SubSeq(s, n + 1, Len(s))

UpperLetters == "ABCDEFGHIJKLMNOPQRSTUVWXYZ"

LowerLetters == "abcdefghijklmnopqrstuvwxyz"

IsUpper(c) == \E i \in 1..26 : CharAt(UpperLetters, i) = c

IsLower(c) == \E i \in 1..26 : CharAt(LowerLetters, i) = c

\* [a-zA-Z]
IsLetter(c) == IsUpper(c) \/ IsLower(c)

\* \d
IsDigit(c) == c \in {"0", "1", "2", "3", "4", "5", "6", "7", "8", "9"}

\* \s
IsSpace(c) == c \in {" ", "\t", "\n"}

\* [+\-*/]
IsOperator(c) == c \in {"+", "-", "*", "/"}

LowerChar(c) ==
    IF IsUpper(c)
    THEN CharAt(LowerLetters, CHOOSE i \in 1..26 : CharAt(UpperLetters, i) = c)
    ELSE c

RECURSIVE toLowerCase(_)
\* String.prototype.toLowerCase
toLowerCase(s) ==
    IF s = "" THEN "" ELSE LowerChar(CharAt(s, 1)) \o toLowerCase(DropFirst(s, 1))

\* sub occurs in s at position i
OccursAt(s, sub, i) ==
    /\ i >= 1
    /\ i + Len(sub) - 1 <= Len(s)
    /\ SubSeq(s, i, i + Len(sub) - 1) = sub

\* String.prototype.includes
includes(s, sub) == \E i \in 1..(Len(s) + 1) : OccursAt(s, sub, i)

RECURSIVE SkipSpaces(_, _)
\* \s* from position i: the position of the first non-space character
SkipSpaces(s, i) ==
    IF i <= Len(s) /\ IsSpace(CharAt(s, i)) THEN SkipSpaces(s, i + 1) ELSE i

RECURSIVE SkipDigits(_, _)
\* \d* from position i: the position of the first non-digit character
SkipDigits(s, i) ==
    IF i <= Len(s) /\ IsDigit(CharAt(s, i)) THEN SkipDigits(s, i + 1) ELSE i

\* /\d+\s*[+\-*/]\s*\d+/ matches s starting at position i
ArithmeticAt(s, i) ==
    /\ i <= Len(s)
    /\ IsDigit(CharAt(s, i))
    /\ LET o == SkipSpaces(s, SkipDigits(s, i))
       IN  /\ o <= Len(s)
           /\ IsOperator(CharAt(s, o))
           /\ LET d == SkipSpaces(s, o + 1)
              IN  d <= Len(s) /\ IsDigit(CharAt(s, d))

\* s.match(/\d+\s*[+\-*/]\s*\d+/) is not null
MatchesArithmetic(s) == \E i \in 1..Len(s) : ArithmeticAt(s, i)

\* ------------------------------------------------------------------------
\* The classifier
\* ------------------------------------------------------------------------

Intents == {"weather", "time", "math", "knowledge", "general"}

\* Faulty variant of routeQuery: the knowledge test comes first.
routeQuery_KnowledgeFirst(query) ==
    LET lowerQuery == toLowerCase(query)
    IN  IF includes(lowerQuery, "who is") \/ includes(lowerQuery, "what is")
           \/ includes(lowerQuery, "define")
        THEN "knowledge"
        ELSE IF includes(lowerQuery, "weather") \/ includes(lowerQuery, "temperature")
        THEN "weather"
        ELSE IF includes(lowerQuery, "time") \/ includes(lowerQuery, "date")
        THEN "time"
        ELSE IF MatchesArithmetic(lowerQuery)
        THEN "math"
        ELSE "general"

routeQuery(query) ==
    LET lowerQuery == toLowerCase(query)
    IN  IF includes(lowerQuery, "weather") \/ includes(lowerQuery, "temperature")
        THEN "weather"
        ELSE IF includes(lowerQuery, "time") \/ includes(lowerQuery, "date")
        THEN "time"
        ELSE IF MatchesArithmetic(lowerQuery)
        THEN "math"
        ELSE IF includes(lowerQuery, "who is") \/ includes(lowerQuery, "what is")
                \/ includes(lowerQuery, "define")
        THEN "knowledge"
        ELSE "general"

\* ------------------------------------------------------------------------
\* Extraction rules of the rule-routed handler
\* ------------------------------------------------------------------------

\* [a-zA-Z\s]
IsLocationChar(c) == IsLetter(c) \/ IsSpace(c)

RECURSIVE SkipLocation(_, _)
\* [a-zA-Z\s]* from position i (greedy)
SkipLocation(s, i) ==
    IF i <= Len(s) /\ IsLocationChar(CharAt(s, i)) THEN SkipLocation(s, i + 1) ELSE i

\* /in ([a-zA-Z\s]+)/ matches s starting at position i
LocationAt(s, i) ==
    /\ OccursAt(s, "in ", i)
    /\ i + 3 <= Len(s)
    /\ IsLocationChar(CharAt(s, i + 3))

\* message.match(/in ([a-zA-Z\s]+)/)?.[1] || 'London'
ExtractLocation(message) ==
    IF \E i \in 1..Len(message) : LocationAt(message, i)
    THEN LET i == CHOOSE k \in 1..Len(message) :
                      /\ LocationAt(message, k)
                      /\ \A j \in 1..(k - 1) : ~LocationAt(message, j)
         IN  SubSeq(message, i + 3, SkipLocation(message, i + 3) - 1)
    ELSE "London"

\* s starts with phrase, compared case-insensitively (the regex's i flag)
StartsWithPhrase(s, phrase) ==
    /\ Len(s) >= Len(phrase)
    /\ toLowerCase(SubSeq(s, 1, Len(phrase))) = phrase

RECURSIVE StripPhrases(_)
\* message.replace(/(who is|what is|define)/gi, '')
StripPhrases(s) ==
    IF s = "" THEN ""
    ELSE IF StartsWithPhrase(s, "who is") THEN StripPhrases(DropFirst(s, 6))
    ELSE IF StartsWithPhrase(s, "what is") THEN StripPhrases(DropFirst(s, 7))
    ELSE IF StartsWithPhrase(s, "define") THEN StripPhrases(DropFirst(s, 6))
    ELSE CharAt(s, 1) \o StripPhrases(DropFirst(s, 1))

RECURSIVE trimStart(_)
trimStart(s) ==
    IF s # "" /\ IsSpace(CharAt(s, 1)) THEN trimStart(DropFirst(s, 1)) ELSE s

RECURSIVE trimEnd(_)
trimEnd(s) ==
    IF s # "" /\ IsSpace(CharAt(s, Len(s)))
    THEN trimEnd(SubSeq(s, 1, Len(s) - 1))
    ELSE s

\* String.prototype.trim
trim(s) == trimEnd(trimStart(s))

\* message.replace(/(who is|what is|define)/gi, '').trim()
ExtractTopic(message) == trim(StripPhrases(message))

\* [\d+\-*/().\s]
IsExpressionChar(c) ==
    IsDigit(c) \/ IsOperator(c) \/ c \in {"(", ")", "."} \/ IsSpace(c)

RECURSIVE SkipExpression(_, _)
\* [\d+\-*/().\s]* from position i (greedy)
SkipExpression(s, i) ==
    IF i <= Len(s) /\ IsExpressionChar(CharAt(s, i))
    THEN SkipExpression(s, i + 1)
    ELSE i

\* message.match(/[\d+\-*/().\s]+/): the leftmost, longest run of expression
\* characters ([0] of the match), or no match (null)
ExtractExpression(message) ==
    IF \E i \in 1..Len(message) : IsExpressionChar(CharAt(message, i))
    THEN LET i == CHOOSE k \in 1..Len(message) :
                      /\ IsExpressionChar(CharAt(message, k))
                      /\ \A j \in 1..(k - 1) : ~IsExpressionChar(CharAt(message, j))
         IN  [found |-> TRUE,
              text |-> SubSeq(message, i, SkipExpression(message, i) - 1)]
    ELSE [found |-> FALSE, text |-> ""]

\* ------------------------------------------------------------------------
\* eval on the extracted text
\*
\* The extracted text holds only digits, + - * / ( ) . and white space.  The
\* evaluator below covers the JavaScript expressions over decimal integer
\* literals without a leading zero, + - * (binary and unary), parentheses,
\* blanks and tabs.  The tokens ++ and -- never have an assignable operand
\* here, so they are early errors.  '/', '.', '**', a literal with a leading
\* zero and a line break have no case in Tokenize: the messages of the model
\* never put them in an evaluated text.
\* ------------------------------------------------------------------------

DigitValue(c) == CHOOSE d \in 0..9 : CharAt("0123456789", d + 1) = c

RECURSIVE DigitsToInt(_)
DigitsToInt(s) ==
    IF s = "" THEN 0
    ELSE 10 * DigitsToInt(SubSeq(s, 1, Len(s) - 1)) + DigitValue(CharAt(s, Len(s)))

Token(t, n) == [t |-> t, n |-> n]

RECURSIVE Tokenize(_)
Tokenize(s) ==
    IF s = "" THEN <<>>
    ELSE LET c == CharAt(s, 1)
             c2 == IF Len(s) >= 2 THEN CharAt(s, 2) ELSE ""
         IN  CASE c \in {" ", "\t"} -> Tokenize(DropFirst(s, 1))
               [] IsDigit(c) /\ ~(c = "0" /\ IsDigit(c2)) ->
                    LET e == SkipDigits(s, 1)
                    IN  <<Token("num", DigitsToInt(SubSeq(s, 1, e - 1)))>>
                        \o Tokenize(DropFirst(s, e - 1))
               [] c = "+" /\ c2 = "+" -> <<Token("++", 0)>> \o Tokenize(DropFirst(s, 2))
               [] c = "-" /\ c2 = "-" -> <<Token("--", 0)>> \o Tokenize(DropFirst(s, 2))
               [] c = "+" /\ c2 # "+" -> <<Token("+", 0)>> \o Tokenize(DropFirst(s, 1))
               [] c = "-" /\ c2 # "-" -> <<Token("-", 0)>> \o Tokenize(DropFirst(s, 1))
               [] c = "*" /\ c2 # "*" -> <<Token("*", 0)>> \o Tokenize(DropFirst(s, 1))
               [] c \in {"(", ")"} -> <<Token(c, 0)>> \o Tokenize(DropFirst(s, 1))

Parsed(ok, v, rest) == [ok |-> ok, v |-> v, rest |-> rest]

ParseError == Parsed(FALSE, 0, <<>>)

RECURSIVE ParseAdditive(_)
RECURSIVE ParseAdditiveRest(_, _)
RECURSIVE ParseMultiplicative(_)
RECURSIVE ParseMultiplicativeRest(_, _)
RECURSIVE ParseUnary(_)

\* PrimaryExpression: a literal or a parenthesised expression
ParsePrimary(toks) ==
    IF toks = <<>> THEN ParseError
    ELSE IF Head(toks).t = "num" THEN Parsed(TRUE, Head(toks).n, Tail(toks))
    ELSE IF Head(toks).t = "("
    THEN LET r == ParseAdditive(Tail(toks))
         IN  IF r.ok /\ r.rest # <<>> /\ Head(r.rest).t = ")"
             THEN Parsed(TRUE, r.v, Tail(r.rest))
             ELSE ParseError
    ELSE ParseError

\* UnaryExpression: + and - prefixes
ParseUnary(toks) ==
    IF toks # <<>> /\ Head(toks).t \in {"+", "-"}
    THEN LET r == ParseUnary(Tail(toks))
         IN  IF ~r.ok THEN ParseError
             ELSE Parsed(TRUE, IF Head(toks).t = "-" THEN 0 - r.v ELSE r.v, r.rest)
    ELSE ParsePrimary(toks)

ParseMultiplicativeRest(acc, toks) ==
    IF toks # <<>> /\ Head(toks).t = "*"
    THEN LET r == ParseUnary(Tail(toks))
         IN  IF ~r.ok THEN ParseError ELSE ParseMultiplicativeRest(acc * r.v, r.rest)
    ELSE Parsed(TRUE, acc, toks)

\* MultiplicativeExpression, left to right
ParseMultiplicative(toks) ==
    LET r == ParseUnary(toks)
    IN  IF ~r.ok THEN ParseError ELSE ParseMultiplicativeRest(r.v, r.rest)

ParseAdditiveRest(acc, toks) ==
    IF toks # <<>> /\ Head(toks).t \in {"+", "-"}
    THEN LET r == ParseMultiplicative(Tail(toks))
         IN  IF ~r.ok THEN ParseError
             ELSE ParseAdditiveRest(IF Head(toks).t = "+" THEN acc + r.v ELSE acc - r.v,
                                    r.rest)
    ELSE Parsed(TRUE, acc, toks)

\* AdditiveExpression, left to right
ParseAdditive(toks) ==
    LET r == ParseMultiplicative(toks)
    IN  IF ~r.ok THEN ParseError ELSE ParseAdditiveRest(r.v, r.rest)

\* eval(text): a number, undefined (an empty program), or a thrown error
\* (SyntaxError, or TypeError for a call of a number such as 4(1+2))
eval(text) ==
    LET toks == Tokenize(text)
    IN  IF toks = <<>> THEN [kind |-> "undefined", n |-> 0]
        ELSE LET r == ParseAdditive(toks)
             IN  IF r.ok /\ r.rest = <<>>
                 THEN [kind |-> "number", n |-> r.v]
                 ELSE [kind |-> "throw", n |-> 0]

RECURSIVE NatToString(_)
NatToString(n) ==
    IF n < 10 THEN CharAt("0123456789", n + 1)
    ELSE NatToString(n \div 10) \o CharAt("0123456789", (n % 10) + 1)

\* `${result}` for an integer result
NumberToString(n) == IF n < 0 THEN "-" \o NatToString(0 - n) ELSE NatToString(n)

\* `${result}` of the template literal
ResultToString(result) ==
    IF result.kind = "number" THEN NumberToString(result.n) ELSE "undefined"

\* case 'math': try { eval(message.match(...)[0]) } catch { ... }
\* (a null match makes [0] throw a TypeError inside the try)
MathAnswer(message) ==
    LET m == ExtractExpression(message)
        result == IF m.found THEN eval(m.text) ELSE [kind |-> "throw", n |-> 0]
    IN  IF result.kind = "throw"
        THEN "Could not calculate that."
        ELSE "The answer is: " \o ResultToString(result)

\* ------------------------------------------------------------------------
\* What the capabilities answer
\*
\* An outcome is what one call of an external service does: it answers with a
\* usable body, answers with a body that lacks the field read ("malformed":
\* the property access throws a TypeError inside the resolver's try), or
\* fails ("throws": axios or the OpenAI client rejects).
\* ------------------------------------------------------------------------

GeocodeOutcomes == {"found", "notfound", "malformed", "throws"}

ForecastOutcomes == {"ok", "malformed", "throws"}

WikipediaOutcomes == {"extract", "noextract", "malformed", "throws"}

SearchOutcomes == {"abstract", "answer", "empty", "malformed", "throws"}

CompletionOutcomes == {"content", "nochoices", "err401", "err"}

\* Sample bodies of the services
GeocodedName == "Paris"

WikipediaExtract == "Ada Lovelace was an English mathematician."

AbstractText == "Paris is the capital of France."

InstantAnswer == "42"

CompletionContent == "Here is what I know."

\* now.toLocaleString() of the local clock
LocaleNow == "11/2/2026, 11:45:09 AM"

\* a || b on strings
JsOr(a, b) == IF a # "" THEN a ELSE b

\* What a resolver hands to its caller: a returned string, or a thrown error
Return(value) == [threw |-> FALSE, value |-> value]

Throw == [threw |-> TRUE, value |-> ""]

\* ------------------------------------------------------------------------
\* The resolvers, from the await of their capability on
\* ------------------------------------------------------------------------

\* getWeather after the geocoding answer: go on to the forecast, or return
getWeather_Geocoded(outcome) ==
    CASE outcome = "found" -> [forecast |-> TRUE, result |-> Return("")]
      [] outcome = "notfound" ->
           [forecast |-> FALSE, result |-> Return("Weather location not found.")]
      [] outcome \in {"malformed", "throws"} ->
           [forecast |-> FALSE,
            result |-> Return("Unable to fetch weather at the moment.")]

\* getWeather after the forecast answer (sample reading: 18 degrees, wind 7)
getWeather_Forecast(outcome) ==
    CASE outcome = "ok" ->
           Return("The weather in " \o GeocodedName \o " is 18°C with wind speed 7 km/h.")
      [] outcome \in {"malformed", "throws"} ->
           Return("Unable to fetch weather at the moment.")

\* Faulty variant of searchWikipedia: no try/catch around the lookup.
searchWikipedia_NoCatch(outcome) ==
    CASE outcome = "extract" -> Return(JsOr(WikipediaExtract, "No information found."))
      [] outcome = "noextract" -> Return(JsOr("", "No information found."))
      [] outcome \in {"malformed", "throws"} -> Throw

\* searchWikipedia after the summary answer
searchWikipedia(outcome) ==
    CASE outcome = "extract" -> Return(JsOr(WikipediaExtract, "No information found."))
      [] outcome = "noextract" -> Return(JsOr("", "No information found."))
      [] outcome \in {"malformed", "throws"} -> Return("Unable to find information.")

\* res.data of the search service
SearchBody(outcome) ==
    CASE outcome = "abstract" -> [AbstractText |-> AbstractText, Answer |-> ""]
      [] outcome = "answer" -> [AbstractText |-> "", Answer |-> InstantAnswer]
      [] outcome = "empty" -> [AbstractText |-> "", Answer |-> ""]

\* searchDuckDuckGo after the search answer
searchDuckDuckGo(outcome) ==
    IF outcome \in {"malformed", "throws"}
    THEN Return("Search unavailable.")
    ELSE Return(JsOr(JsOr(SearchBody(outcome).AbstractText, SearchBody(outcome).Answer),
                     "No results found."))

\* chatWithOpenAI after the completion answer
chatWithOpenAI(outcome) ==
    CASE outcome = "content" -> Return(CompletionContent)
      [] outcome = "err401" ->
           Return("OpenAI API key is not configured. Please add OPENAI_API_KEY to environment variables.")
      [] outcome \in {"nochoices", "err"} ->
           Return("I encountered an error processing your request. Please try again.")

\* the canned acknowledgment of case 'general'
Acknowledgment(message) ==
    "I received your message: \"" \o message
        \o "\". I'm working on understanding more complex queries!"

\* Faulty variant of GeneralAnswer: the acknowledgment is appended to the search text.
GeneralAnswer_Appended(message, found) ==
    IF found = "" \/ found = "No results found."
    THEN Acknowledgment(message)
    ELSE found \o " " \o Acknowledgment(message)

\* case 'general': the search text, or the acknowledgment
GeneralAnswer(message, found) ==
    IF found = "" \/ found = "No results found."
    THEN Acknowledgment(message)
    ELSE found

\* Faulty variant of SearchUnusable: 'Search unavailable.' is not tested.
SearchUnusable_OnlyEmpty(searchResults) ==
    searchResults = "" \/ searchResults = "No results found."

\* searchWithOpenAI: !searchResults || ... === 'No results found.' || ...
SearchUnusable(searchResults) ==
    \/ searchResults = ""
    \/ searchResults = "No results found."
    \/ searchResults = "Search unavailable."

\* Faulty variant of SynthesisFailed: the direct completion always follows.
SynthesisFailed_Always(outcome) == TRUE

\* searchWithOpenAI: the synthesis completion threw (or its body had no choices)
SynthesisFailed(outcome) == outcome # "content"

\* Faulty variant of MessageMissing: message === undefined.
MessageMissing_OnlyUndefined(present, text) == ~present

\* !message
MessageMissing(present, text) == ~present \/ text = ""

SystemChat == "You are a helpful AI assistant. Provide accurate, concise, and friendly responses. If asked about current events or real-time information, indicate that you may not have the latest data."

SystemSearch == "You are a helpful search assistant. Synthesize the provided search results into a clear, concise answer."

\* the user content of the synthesis completion
SynthesisPrompt(query, searchResults) ==
    "User query: " \o query \o "\n\nSearch results: " \o searchResults
        \o "\n\nProvide a clear answer based on these results."

\* ------------------------------------------------------------------------
\* The requests of the model
\* ------------------------------------------------------------------------

Fragments ==
    {"What is ", "2 + 2?", "Weather in Paris", "temperature", "Date",
     "WHO IS Ada", "define ", "hello", "sum:", "2 + ", "3*4", "(1+2)*3"}

RECURSIVE Concatenations(_)
Concatenations(n) ==
    IF n = 0 THEN {""}
    ELSE {f \o m : f \in Fragments, m \in Concatenations(n - 1)}

Messages == UNION {Concatenations(n) : n \in 1..MaxFrags}

UserIds == {"anonymous", "u1"}

Variants == {"rule", "model"}

\* ------------------------------------------------------------------------
\* State
\* ------------------------------------------------------------------------

VARIABLES
    variant,     \* which of the two servers of src/server.js runs
    readyState,  \* mongoose.connection.readyState (1: connected)
    pc,          \* where the handler of the request is
    endpoint,    \* "chat" or "search"
    userId,      \* req.body.userId, 'anonymous' by default
    hasMessage,  \* req.body has the message (query) field
    message,     \* req.body.message (req.body.query for /api/search)
    queryType,   \* routeQuery(message), "" before it ran
    resolvers,   \* the branches of the switch entered, in order
    calls,       \* the capability calls issued, in order, each with its outcome
    resolved,    \* what the resolver returned
    response,    \* the handler's response variable
    saveState,   \* chat.save(): "none", "pending", "saved", "failed"
    chats,       \* the Chat collection
    reply        \* what was sent to the caller (status 0: nothing yet)

vars == <<variant, readyState, pc, endpoint, userId, hasMessage, message, queryType,
          resolvers, calls, resolved, response, saveState, chats, reply>>

NoReply == [status |-> 0, error |-> "", text |-> ""]

\* res.json({ success: true, response })
Success(text) == [status |-> 200, error |-> "", text |-> text]

\* res.status(code).json({ error })
Failure(code, error) == [status |-> code, error |-> error, text |-> ""]

Call(cap, arg, system) ==
    [cap |-> cap, arg |-> arg, system |-> system, outcome |-> "pending"]

\* the last call of cs has answered with outcome
Answered(cs, outcome) == [cs EXCEPT ![Len(cs)].outcome = outcome]

Init ==
    /\ variant \in Variants
    /\ readyState = 0
    /\ pc = "idle"
    /\ endpoint = ""
    /\ userId = ""
    /\ hasMessage = FALSE
    /\ message = ""
    /\ queryType = ""
    /\ resolvers = <<>>
    /\ calls = <<>>
    /\ resolved = ""
    /\ response = ""
    /\ saveState = "none"
    /\ chats = {}
    /\ reply = NoReply

\* mongoose.connect(...).then(...): the connection is established
MongoConnected ==
    /\ readyState = 0
    /\ readyState' = 1
    /\ UNCHANGED <<variant, pc, endpoint, userId, hasMessage, message, queryType,
                   resolvers, calls, resolved, response, saveState, chats, reply>>

\* The answer is computed: save it when the database is connected (and wait
\* for the save), else answer at once.
Persist(text) ==
    /\ response' = text
    /\ chats' = chats
    /\ IF readyState = 1
       THEN /\ pc' = "saving"
            /\ saveState' = "pending"
            /\ reply' = reply
       ELSE /\ pc' = "done"
            /\ saveState' = saveState
            /\ reply' = Success(text)

\* catch (error) of a handler
ServerError ==
    /\ pc' = "done"
    /\ reply' = Failure(500, "Server error")
    /\ UNCHANGED <<response, saveState, chats>>

\* A resolver handed r to the chat handler
Resolved(r) ==
    /\ resolved' = r.value
    /\ IF r.threw THEN ServerError ELSE Persist(r.value)

\* if (!message) return res.status(400).json(...)
Reject(error) ==
    /\ pc' = "done"
    /\ reply' = Failure(400, error)
    /\ UNCHANGED <<queryType, resolvers, calls, resolved, response, saveState, chats>>

\* POST /api/chat of the rule-routed server, up to its first await
ChatRule(uid, present, text) ==
    /\ pc = "idle"
    /\ variant = "rule"
    /\ endpoint' = "chat"
    /\ userId' = uid
    /\ hasMessage' = present
    /\ message' = text
    /\ UNCHANGED <<variant, readyState>>
    /\ IF MessageMissing(present, text)
       THEN Reject("Message is required")
       ELSE LET type == routeQuery(text)
            IN  /\ queryType' = type
                /\ resolvers' = <<type>>
                /\ CASE type = "weather" ->
                          /\ calls' = <<Call("geocode", ExtractLocation(text), "")>>
                          /\ pc' = "geocode"
                          /\ UNCHANGED <<resolved, response, saveState, chats, reply>>
                     [] type = "time" ->
                          /\ calls' = calls
                          /\ Resolved(Return("Current time: " \o LocaleNow))
                     [] type = "math" ->
                          /\ calls' = calls
                          /\ Resolved(Return(MathAnswer(text)))
                     [] type = "knowledge" ->
                          /\ calls' = <<Call("wikipedia", ExtractTopic(text), "")>>
                          /\ pc' = "wikipedia"
                          /\ UNCHANGED <<resolved, response, saveState, chats, reply>>
                     [] type = "general" ->
                          /\ calls' = <<Call("search", text, "")>>
                          /\ pc' = "search"
                          /\ UNCHANGED <<resolved, response, saveState, chats, reply>>

\* getWeather: the geocoding call answers
GeocodeReturn(outcome) ==
    /\ pc = "geocode"
    /\ LET step == getWeather_Geocoded(outcome)
       IN  IF step.forecast
           THEN /\ calls' = Answered(calls, outcome) \o <<Call("forecast", GeocodedName, "")>>
                /\ pc' = "forecast"
                /\ UNCHANGED <<resolved, response, saveState, chats, reply>>
           ELSE /\ calls' = Answered(calls, outcome)
                /\ Resolved(step.result)
    /\ UNCHANGED <<variant, readyState, endpoint, userId, hasMessage, message,
                   queryType, resolvers>>

\* getWeather: the forecast call answers
ForecastReturn(outcome) ==
    /\ pc = "forecast"
    /\ calls' = Answered(calls, outcome)
    /\ Resolved(getWeather_Forecast(outcome))
    /\ UNCHANGED <<variant, readyState, endpoint, userId, hasMessage, message,
                   queryType, resolvers>>

\* searchWikipedia: the summary call answers
WikipediaReturn(outcome) ==
    /\ pc = "wikipedia"
    /\ calls' = Answered(calls, outcome)
    /\ Resolved(searchWikipedia(outcome))
    /\ UNCHANGED <<variant, readyState, endpoint, userId, hasMessage, message,
                   queryType, resolvers>>

\* case 'general': searchDuckDuckGo answers
GeneralSearchReturn(outcome) ==
    /\ pc = "search"
    /\ calls' = Answered(calls, outcome)
    /\ LET r == searchDuckDuckGo(outcome)
       IN  /\ resolved' = r.value
           /\ IF r.threw THEN ServerError
              ELSE Persist(GeneralAnswer(message, r.value))
    /\ UNCHANGED <<variant, readyState, endpoint, userId, hasMessage, message,
                   queryType, resolvers>>

\* POST /api/chat of the model-augmented server, up to its first await
ChatModel(uid, present, text) ==
    /\ pc = "idle"
    /\ variant = "model"
    /\ endpoint' = "chat"
    /\ userId' = uid
    /\ hasMessage' = present
    /\ message' = text
    /\ UNCHANGED <<variant, readyState>>
    /\ IF MessageMissing(present, text)
       THEN Reject("Message is required")
       ELSE /\ calls' = <<Call("completion", text, SystemChat)>>
            /\ pc' = "chat_completion"
            /\ UNCHANGED <<queryType, resolvers, resolved, response, saveState, chats, reply>>

\* chatWithOpenAI called by the chat handler: the completion answers
ChatCompletionReturn(outcome) ==
    /\ pc = "chat_completion"
    /\ calls' = Answered(calls, outcome)
    /\ Resolved(chatWithOpenAI(outcome))
    /\ UNCHANGED <<variant, readyState, endpoint, userId, hasMessage, message,
                   queryType, resolvers>>

\* POST /api/search of the model-augmented server, up to its first await
SearchModel(present, text) ==
    /\ pc = "idle"
    /\ variant = "model"
    /\ endpoint' = "search"
    /\ userId' = userId
    /\ hasMessage' = present
    /\ message' = text
    /\ UNCHANGED <<variant, readyState>>
    /\ IF MessageMissing(present, text)
       THEN Reject("Query is required")
       ELSE /\ calls' = <<Call("search", text, "")>>
            /\ pc' = "swo_search"
            /\ UNCHANGED <<queryType, resolvers, resolved, response, saveState, chats, reply>>

\* searchWithOpenAI: searchDuckDuckGo answers
SwoSearchReturn(outcome) ==
    /\ pc = "swo_search"
    /\ LET r == searchDuckDuckGo(outcome)
       IN  IF r.threw
           THEN \* caught by searchWithOpenAI's catch: chatWithOpenAI(query)
                /\ calls' = Answered(calls, outcome)
                               \o <<Call("completion", message, SystemChat)>>
                /\ pc' = "swo_fallback"
           ELSE IF SearchUnusable(r.value)
           THEN /\ calls' = Answered(calls, outcome)
                               \o <<Call("completion", message, SystemChat)>>
                /\ pc' = "swo_fallback"
           ELSE /\ calls' = Answered(calls, outcome)
                               \o <<Call("completion",
                                         SynthesisPrompt(message, r.value),
                                         SystemSearch)>>
                /\ pc' = "swo_synthesis"
    /\ UNCHANGED <<variant, readyState, endpoint, userId, hasMessage, message, queryType,
                   resolvers, resolved, response, saveState, chats, reply>>

\* searchWithOpenAI: the synthesis completion answers
SynthesisReturn(outcome) ==
    /\ pc = "swo_synthesis"
    /\ IF SynthesisFailed(outcome)
       THEN \* catch: return await chatWithOpenAI(query)
            /\ calls' = Answered(calls, outcome)
                           \o <<Call("completion", message, SystemChat)>>
            /\ pc' = "swo_fallback"
            /\ UNCHANGED <<resolved, reply>>
       ELSE /\ calls' = Answered(calls, outcome)
            /\ pc' = "done"
            /\ resolved' = CompletionContent
            /\ reply' = Success(CompletionContent)
    /\ UNCHANGED <<variant, readyState, endpoint, userId, hasMessage, message, queryType,
                   resolvers, response, saveState, chats>>

\* searchWithOpenAI: the completion of chatWithOpenAI(query) answers
FallbackReturn(outcome) ==
    /\ pc = "swo_fallback"
    /\ calls' = Answered(calls, outcome)
    /\ pc' = "done"
    /\ LET r == chatWithOpenAI(outcome)
       IN  /\ resolved' = r.value
           /\ reply' = IF r.threw THEN Failure(500, "Search failed") ELSE Success(r.value)
    /\ UNCHANGED <<variant, readyState, endpoint, userId, hasMessage, message, queryType,
                   resolvers, response, saveState, chats>>

\* await chat.save() resolves (saved) or rejects
SaveReturn(saved) ==
    /\ pc = "saving"
    /\ pc' = "done"
    /\ IF saved
       THEN /\ saveState' = "saved"
            /\ chats' = chats \cup {[userId |-> userId, message |-> message,
                                     response |-> response]}
            /\ reply' = Success(response)
       ELSE /\ saveState' = "failed"
            /\ chats' = chats
            /\ reply' = Failure(500, "Server error")
    /\ UNCHANGED <<variant, readyState, endpoint, userId, hasMessage, message, queryType,
                   resolvers, calls, resolved, response>>

\* The requests a caller can send: the message field is absent, or holds the
\* empty string or a message
Requests == {[present |-> FALSE, text |-> ""]}
               \cup {[present |-> TRUE, text |-> t] : t \in Messages \cup {""}}

Next ==
    \/ MongoConnected
    \/ /\ pc = "idle"
       /\ \E uid \in UserIds, req \in Requests : ChatRule(uid, req.present, req.text)
    \/ \E outcome \in GeocodeOutcomes : GeocodeReturn(outcome)
    \/ \E outcome \in ForecastOutcomes : ForecastReturn(outcome)
    \/ \E outcome \in WikipediaOutcomes : WikipediaReturn(outcome)
    \/ \E outcome \in SearchOutcomes : GeneralSearchReturn(outcome)
    \/ /\ pc = "idle"
       /\ \E uid \in UserIds, req \in Requests : ChatModel(uid, req.present, req.text)
    \/ \E outcome \in CompletionOutcomes : ChatCompletionReturn(outcome)
    \/ /\ pc = "idle"
       /\ \E req \in Requests : SearchModel(req.present, req.text)
    \/ \E outcome \in SearchOutcomes : SwoSearchReturn(outcome)
    \/ \E outcome \in CompletionOutcomes : SynthesisReturn(outcome)
    \/ \E outcome \in CompletionOutcomes : FallbackReturn(outcome)
    \/ \E saved \in BOOLEAN : SaveReturn(saved)

Spec == Init /\ [][Next]_vars

\* ------------------------------------------------------------------------
\* Properties
\* ------------------------------------------------------------------------

\* !message, as the request shows it
EmptyRequest == ~hasMessage \/ message = ""

\* the answer of the request is computed (the handler is past its resolver)
AnswerComputed == pc \in {"saving", "done"} /\ ~EmptyRequest

LastCall == calls[Len(calls)]

\* outcomes in which the capability failed: it threw, or its body lacked the
\* field the resolver reads
FailureOutcomes == {"malformed", "throws", "nochoices", "err401", "err"}

\* the texts the resolvers return from their catch blocks
SentinelTexts ==
    {"Unable to fetch weather at the moment.",
     "Unable to find information.",
     "Search unavailable.",
     "OpenAI API key is not configured. Please add OPENAI_API_KEY to environment variables.",
     "I encountered an error processing your request. Please try again."}

\* C1: when chat.save() fails after the answer is computed, the caller still
\* gets the 200 response carrying the computed answer.
C1_SaveFailureKeepsAnswer ==
    saveState = "failed" => reply = Success(response)

\* C2: rule-routed, general intent: when the web search is empty or fails, the
\* final answer is the acknowledgment echoing the message, never empty and
\* never the raw search-failure text.
C2_GeneralSearchFailureAcknowledged ==
    (/\ variant = "rule"
     /\ queryType = "general"
     /\ AnswerComputed
     /\ calls[1].outcome \in {"empty", "throws"})
    => /\ response = Acknowledgment(message)
       /\ response # ""
       /\ response # "Search unavailable."

\* C3: no capability failure escapes a resolver: an error response is sent only
\* when the save failed, and a resolver whose last capability call failed has
\* returned one of the sentinel texts.
C3_NoErrorEscapes ==
    /\ reply.status = 500 => saveState = "failed"
    /\ (AnswerComputed /\ calls # <<>> /\ LastCall.outcome \in FailureOutcomes)
           => /\ resolved \in SentinelTexts
              /\ saveState # "failed" => (reply.status = 0 \/ reply = Success(resolved))
              /\ endpoint = "chat" => response = resolved

C3_Witness ==
    /\ pc = "done"
    /\ calls # <<>>
    /\ LastCall.outcome = "throws"
    /\ resolved \in SentinelTexts
    /\ reply.status = 200

\* C4: in both variants a chat request with a missing or empty message is
\* rejected with 'Message is required' before the classifier, any resolver or
\* capability call runs, and nothing is saved.
C4_MissingMessageRejected ==
    (endpoint = "chat" /\ EmptyRequest)
    => /\ pc = "done"
       /\ reply = Failure(400, "Message is required")
       /\ queryType = ""
       /\ resolvers = <<>>
       /\ calls = <<>>
       /\ response = ""
       /\ saveState = "none"
       /\ chats = {}

C4_Witness ==
    /\ endpoint = "chat"
    /\ hasMessage
    /\ message = ""
    /\ readyState = 1
    /\ reply.status = 400

\* the triggers of the classifier, read off the lower-cased text
HasWeatherCue(lower) == includes(lower, "weather") \/ includes(lower, "temperature")

HasTimeCue(lower) == includes(lower, "time") \/ includes(lower, "date")

HasKnowledgeCue(lower) ==
    includes(lower, "who is") \/ includes(lower, "what is") \/ includes(lower, "define")

\* C5: routeQuery gives every text exactly one intent, the one of the first
\* satisfied trigger in the order weather > time > math > knowledge > general,
\* whatever the case of the letters.
C5_RouteQueryFirstMatch ==
    (variant = "rule" /\ endpoint = "chat" /\ ~EmptyRequest)
    => LET lower == toLowerCase(message)
           weather == HasWeatherCue(lower)
           time == HasTimeCue(lower)
           math == MatchesArithmetic(message)
           knowledge == HasKnowledgeCue(lower)
       IN  /\ queryType \in Intents
           /\ weather => queryType = "weather"
           /\ (~weather /\ time) => queryType = "time"
           /\ (~weather /\ ~time /\ math) => queryType = "math"
           /\ (~weather /\ ~time /\ ~math /\ knowledge) => queryType = "knowledge"
           /\ (~weather /\ ~time /\ ~math /\ ~knowledge) => queryType = "general"
           /\ queryType = routeQuery(lower)

C5_Witness ==
    /\ variant = "rule"
    /\ message = "What is Weather in Paris"
    /\ queryType = "weather"

RECURSIVE ExpressionStart(_, _)
\* the first position of the run of expression characters that holds position i
ExpressionStart(s, i) ==
    IF i > 1 /\ IsExpressionChar(CharAt(s, i - 1)) THEN ExpressionStart(s, i - 1) ELSE i

\* the position of the first match of the arithmetic pattern in s
FirstArithmetic(s) ==
    CHOOSE k \in 1..Len(s) :
        ArithmeticAt(s, k) /\ \A j \in 1..(k - 1) : ~ArithmeticAt(s, j)

\* the arithmetic expression of the message: the run of expression characters
\* around the first match of the pattern, without the blanks around it
TheExpression(s) ==
    trim(SubSeq(s, ExpressionStart(s, FirstArithmetic(s)),
                SkipExpression(s, FirstArithmetic(s)) - 1))

\* a well-formed arithmetic expression comes after other words
ExpressionAfterWords(s) ==
    /\ MatchesArithmetic(s)
    /\ ExpressionStart(s, FirstArithmetic(s)) > 1
    /\ eval(TheExpression(s)).kind = "number"

\* C6: math resolver: for an expression preceded by other words ("What is 2 + 2?")
\* the text extracted for evaluation is the expression ("2 + 2") and the answer
\* holds its value ("4").
C6_ExpressionExtracted ==
    (/\ variant = "rule"
     /\ queryType = "math"
     /\ AnswerComputed
     /\ ExpressionAfterWords(message))
    => /\ trim(ExtractExpression(message).text) = TheExpression(message)
       /\ includes(response, NumberToString(eval(TheExpression(message)).n))

\* C7, as claimed: searchWithOpenAI issues at most two capability calls, one
\* web search then at most one completion, on every path.
C7_AtMostTwoCalls ==
    endpoint = "search"
    => /\ Len(calls) <= 2
       /\ \A i \in 1..Len(calls) :
             calls[i].cap = (IF i = 1 THEN "search" ELSE "completion")

\* C7, amended: searchWithOpenAI issues at most three capability calls, one
\* after the other: one web search, then at most two completions; the second
\* completion is the direct one, issued only after the synthesis completion
\* failed; on every other path there are at most two calls.
C7_AtMostThreeCalls ==
    (endpoint = "search" /\ ~EmptyRequest)
    => /\ Len(calls) \in 1..3
       /\ \A i \in 1..Len(calls) :
             /\ calls[i].cap = (IF i = 1 THEN "search" ELSE "completion")
             /\ i < Len(calls) => calls[i].outcome # "pending"
       /\ Len(calls) = 3
             => /\ calls[1].outcome \in {"abstract", "answer"}
                /\ calls[2].system = SystemSearch
                /\ calls[2].outcome \in {"nochoices", "err401", "err"}
                /\ calls[3].system = SystemChat
                /\ calls[3].arg = message
       /\ pc = "done" => LastCall.outcome # "pending"

C7_Witness ==
    /\ endpoint = "search"
    /\ pc = "done"
    /\ Len(calls) = 3
    /\ calls[2].outcome = "err"
    /\ reply.status = 200

C9_ResponseNotBlockedBySave ==
    saveState = "pending" => reply.status = 200

\* the capabilities of the resolver of an intent
CapabilitiesOf(intent) ==
    CASE intent = "weather" -> {"geocode", "forecast"}
      [] intent = "knowledge" -> {"wikipedia"}
      [] intent = "general" -> {"search"}
      [] OTHER -> {}

\* C10: rule-routed: one resolver at most runs, the one of the classified
\* intent; the final answer is what it returned or, for general only, the
\* acknowledgment; texts of two resolvers are never combined.
C10_OneResolver ==
    (variant = "rule" /\ endpoint = "chat" /\ ~EmptyRequest)
    => /\ resolvers = <<queryType>>
       /\ \A i \in 1..Len(calls) : calls[i].cap \in CapabilitiesOf(queryType)
       /\ AnswerComputed
             => /\ \/ response = resolved
                   \/ queryType = "general" /\ response = Acknowledgment(message)
                /\ reply.status = 200 => reply.text = response

C10_Witness ==
    /\ variant = "rule"
    /\ pc = "done"
    /\ queryType = "general"
    /\ calls[1].outcome = "abstract"
    /\ response = AbstractText
    /\ reply = Success(AbstractText)

====
